---- MODULE Spec2Model ----
(***************************************************************************)
(* Model of tt_gutenberg: the alias tokenizer (_split_aliases,             *)
(* _clean_alias), the translation counter and alias ranker of              *)
(* list_authors (authors.py), and the table cache of                       *)
(* read_gutenberg_tables (utils.py).                                       *)
(*                                                                         *)
(* A Python str is a sequence of one-character strings: <<"a", "b">> is    *)
(* "ab" and << >> is "".  A missing value (NaN, None) is NaN where an id   *)
(* or a language code is expected and NaNStr where a str is expected.      *)
(***************************************************************************)
EXTENDS Integers, Sequences, FiniteSets, TLC

VARIABLES
    \* ---- alias tokenizer, one authors row (authors.py 104-115)
    raw,            \* row.get(alias_col)
    author_name,    \* row.get(name_col)
    parts,          \* _split_aliases(raw)
    cleaned,        \* the row's cleaned aliases
    apc,            \* position in the row's processing
    \* ---- _clean_alias applied repeatedly
    cand,           \* the candidate given to the first application
    outs,           \* the results of the successive applications
    \* ---- alias ranker (authors.py 97-122)
    authors,        \* the authors table: a sequence of rows
    trans_count,    \* author_id -> count (authors absent from it are missing keys)
    idx,            \* rows of the authors table already iterated
    alias_to_count, \* dict alias -> count, in insertion order
    result,         \* the list returned by list_authors
    rpc,            \* position in list_authors
    \* ---- translation counter (authors.py 55-86)
    mcols,          \* metadata.columns
    lcols,          \* languages.columns
    metadata,       \* rows of the metadata table
    languages,      \* rows of the languages table
    counted,        \* outcome of the translation-count step
    prev_counted,   \* outcome of the previous call's step
    added,          \* the language row appended between the two calls
    cpc,            \* position in the translation-count step
    \* ---- read_gutenberg_tables (utils.py)
    cache,          \* read_gutenberg_tables._cache: has is FALSE while unset
    last_call,      \* what the most recent call did and returned
    stored,         \* the tables stored by the most recent downloading call
    ncalls          \* completed calls

aliasVars == <<raw, author_name, parts, cleaned, apc>>
cleanVars == <<cand, outs>>
rankVars  == <<authors, trans_count, idx, alias_to_count, result, rpc>>
countVars == <<mcols, lcols, metadata, languages, counted, prev_counted, added, cpc>>
cacheVars == <<cache, last_call, stored, ncalls>>
vars == <<aliasVars, cleanVars, rankVars, countVars, cacheVars>>

NaN == "NaN"
NaNStr == <<"NaN">>

\* ------------------------------------------------------------------ str

Lowercase == {"a","b","c","d","e","f","g","h","i","j","k","l","m",
              "n","o","p","q","r","s","t","u","v","w","x","y","z"}
Uppercase == {"A","B","C","D","E","F","G","H","I","J","K","L","M",
              "N","O","P","Q","R","S","T","U","V","W","X","Y","Z"}
Digits == {"0","1","2","3","4","5","6","7","8","9"}
Whitespace == {" ", "\t", "\n"}

\* str.lower() on one character
LowerChar(c) ==
    CASE c = "A" -> "a" [] c = "B" -> "b" [] c = "C" -> "c" [] c = "D" -> "d"
      [] c = "E" -> "e" [] c = "F" -> "f" [] c = "G" -> "g" [] c = "H" -> "h"
      [] c = "I" -> "i" [] c = "J" -> "j" [] c = "K" -> "k" [] c = "L" -> "l"
      [] c = "M" -> "m" [] c = "N" -> "n" [] c = "O" -> "o" [] c = "P" -> "p"
      [] c = "Q" -> "q" [] c = "R" -> "r" [] c = "S" -> "s" [] c = "T" -> "t"
      [] c = "U" -> "u" [] c = "V" -> "v" [] c = "W" -> "w" [] c = "X" -> "x"
      [] c = "Y" -> "y" [] c = "Z" -> "z" [] OTHER -> c

\* s.lower()
Lower(s) == [i \in 1..Len(s) |-> LowerChar(s[i])]

\* s[i:] and s[:j] (1-based: Drop(s, n) drops the first n characters)
Drop(s, n) == SubSeq(s, n + 1, Len(s))
Take(s, n) == SubSeq(s, 1, n)

\* number of leading characters of s that lie in class
RECURSIVE LeadRun(_, _)
LeadRun(s, class) ==
    IF s = << >> \/ s[1] \notin class THEN 0 ELSE 1 + LeadRun(Tail(s), class)

\* number of trailing characters of s that lie in class
RECURSIVE TrailRun(_, _)
TrailRun(s, class) ==
    IF s = << >> \/ s[Len(s)] \notin class THEN 0
    ELSE 1 + TrailRun(Take(s, Len(s) - 1), class)

\* s.strip()
Strip(s) ==
    LET t == Drop(s, LeadRun(s, Whitespace))
    IN  Take(t, Len(t) - TrailRun(t, Whitespace))

OpenClass == {"[", "(", "\""}
CloseClass == {"]", ")", "\""}

\* re.sub(r"^[\[\(\"]+|[\]\)\"]+$", "", s): the leading run of [ ( " is
\* removed, then the trailing run of ] ) " of what is left
StripOuter(s) ==
    LET t == Drop(s, LeadRun(s, OpenClass))
    IN  Take(t, Len(t) - TrailRun(t, CloseClass))

\* needle in s
Contains(s, needle) ==
    \E i \in 1..(Len(s) - Len(needle) + 1) :
        SubSeq(s, i, i + Len(needle) - 1) = needle

\* s.startswith(prefix)
StartsWith(s, prefix) ==
    Len(prefix) <= Len(s) /\ Take(s, Len(prefix)) = prefix

\* re.search(r"[A-Za-z]", s)
HasLetter(s) == \E i \in 1..Len(s) : s[i] \in Lowercase \cup Uppercase

\* re.split(r"[,;|/\\]", s): every piece, the empty ones included
Separators == {",", ";", "|", "/", "\\"}

RECURSIVE SplitSep(_, _)
SplitSep(s, cur) ==
    IF s = << >> THEN <<cur>>
    ELSE IF s[1] \in Separators THEN <<cur>> \o SplitSep(Tail(s), << >>)
    ELSE SplitSep(Tail(s), Append(cur, s[1]))

\* \w of the regular expression
WordChars == Lowercase \cup Uppercase \cup Digits \cup {"_"}
AndWord == <<"a", "n", "d">>

\* \band\b (IGNORECASE) matches at position i of s
AndAt(s, i) ==
    /\ i + 2 <= Len(s)
    /\ Lower(SubSeq(s, i, i + 2)) = AndWord
    /\ (i = 1 \/ s[i - 1] \notin WordChars)
    /\ (i + 2 = Len(s) \/ s[i + 3] \notin WordChars)

\* re.split(r"\band\b", s, flags=re.IGNORECASE), scanning from position i
RECURSIVE SplitAnd(_, _, _)
SplitAnd(s, i, cur) ==
    IF i > Len(s) THEN <<cur>>
    ELSE IF AndAt(s, i) THEN <<cur>> \o SplitAnd(s, i + 3, << >>)
    ELSE SplitAnd(s, i + 1, Append(cur, s[i]))

\* [f(p) for p in seq if p]
RECURSIVE StripNonEmpty(_)
StripNonEmpty(seq) ==
    IF seq = << >> THEN << >>
    ELSE (IF seq[1] /= << >> THEN <<Strip(seq[1])>> ELSE << >>)
         \o StripNonEmpty(Tail(seq))

\* [p for p in seq if p]
RECURSIVE NonEmpty(_)
NonEmpty(seq) ==
    IF seq = << >> THEN << >>
    ELSE (IF seq[1] /= << >> THEN <<seq[1]>> ELSE << >>) \o NonEmpty(Tail(seq))

\* [q.strip() for q in seq]
StripAll(seq) == [i \in 1..Len(seq) |-> Strip(seq[i])]

SpaceAndSpace == <<" ", "a", "n", "d", " ">>

\* the loop of _split_aliases over parts (lines 15-20)
RECURSIVE SplitParts(_)
SplitParts(ps) ==
    IF ps = << >> THEN << >>
    ELSE (IF Contains(Lower(ps[1]), SpaceAndSpace)
          THEN StripAll(SplitAnd(ps[1], 1, << >>))
          ELSE <<ps[1]>>)
         \o SplitParts(Tail(ps))

\* _split_aliases(s) for a str s
_split_aliases(s) ==
    LET s1 == StripOuter(Strip(s))
        ps == StripNonEmpty(SplitSep(s1, << >>))
    IN  NonEmpty(SplitParts(ps))

NoneTokens == { <<"n","o","n","e">>, <<"n","a","n">> }

\* the bug of returning the lower-cased string the comparisons are made on
_clean_alias_lowered(a, name) ==
    LET a1 == Strip(StripOuter(Strip(a)))
    IN  IF a1 = << >> \/ Lower(a1) \in NoneTokens THEN << >>
        ELSE IF name /= NaNStr /\ Lower(a1) = Lower(Strip(name)) THEN << >>
        ELSE IF ~HasLetter(a1) THEN << >>
        ELSE Lower(a1)

\* _clean_alias(a, author_name) for a str a; '' is << >>.  author_name is a
\* str or NaNStr (isinstance(author_name, str) fails for a missing name)
_clean_alias(a, name) ==
    LET a1 == Strip(StripOuter(Strip(a)))
    IN  IF a1 = << >> \/ Lower(a1) \in NoneTokens THEN << >>
        ELSE IF name /= NaNStr /\ Lower(a1) = Lower(Strip(name)) THEN << >>
        ELSE IF ~HasLetter(a1) THEN << >>
        ELSE a1

\* ------------------------------------------------- one authors row

\* the loop over parts of list_authors (lines 107-111)
RECURSIVE CleanParts(_, _)
CleanParts(ps, name) ==
    IF ps = << >> THEN << >>
    ELSE LET c == _clean_alias(ps[1], name)
         IN  (IF c /= << >> THEN <<c>> ELSE << >>) \o CleanParts(Tail(ps), name)

\* parts = _split_aliases(raw) if isinstance(raw, str) else []  (line 106)
SplitRaw(r) == IF r = NaNStr THEN << >> ELSE _split_aliases(r)

\* the last-resort clean of the raw field (lines 112-115)
LastResort(cl, r, name) ==
    IF cl = << >> /\ r /= NaNStr
    THEN LET c == _clean_alias(r, name)
         IN  IF c /= << >> THEN <<c>> ELSE << >>
    ELSE cl

\* the cleaned aliases of one authors row (lines 104-115)
RowAliases(r, name) == LastResort(CleanParts(SplitRaw(r), name), r, name)

\* ------------------------------------------------------- alias ranker

\* the printable ASCII characters in code-point order, from 32 (the entry
\* at code point 96 stands for the backtick, which no string here holds)
ASCII == <<
    " ", "!", "\"", "#", "$", "%", "&", "'", "(", ")", "*", "+",
    ",", "-", ".", "/", "0", "1", "2", "3", "4", "5", "6", "7",
    "8", "9", ":", ";", "<", "=", ">", "?", "@", "A", "B", "C",
    "D", "E", "F", "G", "H", "I", "J", "K", "L", "M", "N", "O",
    "P", "Q", "R", "S", "T", "U", "V", "W", "X", "Y", "Z", "[",
    "\\", "]", "^", "_", "(backtick)", "a", "b", "c", "d", "e", "f", "g",
    "h", "i", "j", "k", "l", "m", "n", "o", "p", "q", "r", "s",
    "t", "u", "v", "w", "x", "y", "z", "{", "|", "}", "~" >>

\* ord(c)
Ord(c) == 31 + (CHOOSE i \in 1..Len(ASCII) : ASCII[i] = c)

\* s < t for two str: lexicographic by code point
RECURSIVE StrLess(_, _)
StrLess(s, t) ==
    IF t = << >> THEN FALSE
    ELSE IF s = << >> THEN TRUE
    ELSE IF s[1] /= t[1] THEN Ord(s[1]) < Ord(t[1])
    ELSE StrLess(Tail(s), Tail(t))

\* key(x) < key(y) for key = lambda x: (-x[1], x[0].lower())  (line 121);
\* an item is <<alias, count>>
KeyLess(x, y) ==
    \/ x[2] > y[2]
    \/ x[2] = y[2] /\ StrLess(Lower(x[1]), Lower(y[1]))

\* sorted() is stable: x goes after every item whose key is not greater
InsertSorted(srt, x) ==
    LET n == Cardinality({i \in 1..Len(srt) : ~KeyLess(x, srt[i])})
    IN  Take(srt, n) \o <<x>> \o Drop(srt, n)

RECURSIVE SortItems(_, _)
SortItems(items, acc) ==
    IF items = << >> THEN acc
    ELSE SortItems(Tail(items), InsertSorted(acc, items[1]))

\* sorted(alias_to_count.items(), key=...) and [a for a, _ in items]
SortedAliases(d) ==
    LET items == SortItems(d, << >>)
    IN  [i \in 1..Len(items) |-> items[i][1]]

Max(a, b) == IF a >= b THEN a ELSE b

\* alias_to_count.get(a, 0) on the dict d (a sequence of <<alias, count>>)
DictGet(d, a) ==
    IF \E i \in 1..Len(d) : d[i][1] = a
    THEN d[CHOOSE i \in 1..Len(d) : d[i][1] = a][2]
    ELSE 0

\* the bug of assigning the author's count without the max
DictPutLast(d, a, count) ==
    IF \E i \in 1..Len(d) : d[i][1] = a
    THEN [i \in 1..Len(d) |-> IF d[i][1] = a THEN <<a, count>> ELSE d[i]]
    ELSE Append(d, <<a, count>>)

\* the bug of collecting the pairs in a list
DictPutAppend(d, a, count) == Append(d, <<a, Max(DictGet(d, a), count)>>)

\* alias_to_count[a] = max(alias_to_count.get(a, 0), count)  (line 119):
\* an existing key keeps its place, a new key goes last
DictPut(d, a, count) ==
    IF \E i \in 1..Len(d) : d[i][1] = a
    THEN [i \in 1..Len(d) |->
            IF d[i][1] = a THEN <<a, Max(DictGet(d, a), count)>> ELSE d[i]]
    ELSE Append(d, <<a, Max(0, count)>>)

\* for a in cleaned: alias_to_count[a] = ...  (lines 118-119)
RECURSIVE PutAll(_, _, _)
PutAll(d, cl, count) ==
    IF cl = << >> THEN d
    ELSE PutAll(DictPut(d, cl[1], count), Tail(cl), count)

\* trans_count.get(aid, 0)  (line 117)
CountGet(tc, aid) == IF aid \in DOMAIN tc THEN tc[aid] ELSE 0

\* one iteration of the loop over authors.iterrows() (lines 100-119)
RowStep(d, row, tc) ==
    IF row.author_id = NaN THEN d
    ELSE PutAll(d, RowAliases(row.alias, row.author_name),
                CountGet(tc, row.author_id))

RECURSIVE Accumulate(_, _, _)
Accumulate(d, rows, tc) ==
    IF rows = << >> THEN d
    ELSE Accumulate(RowStep(d, rows[1], tc), Tail(rows), tc)

\* list_authors(alias=True) on an authors table that has an alias column
ListAuthors(rows, tc) == SortedAliases(Accumulate(<< >>, rows, tc))

\* ------------------------------------------------ bounds and inputs

MaxRows == 2        \* rows of the authors table
MaxCount == 2       \* largest translation count of an author
MaxRawLen == 4      \* longest alias field enumerated character by character
MaxApply == 2       \* applications of _clean_alias in a row
MaxCalls == 3       \* calls of read_gutenberg_tables
MaxMeta == 2        \* rows of the metadata table
MaxLang == 1        \* rows of the languages table before a row is added

\* all sequences over S of length at most n
RECURSIVE SeqsUpTo(_, _)
SeqsUpTo(S, n) ==
    IF n = 0 THEN { << >> }
    ELSE LET R == SeqsUpTo(S, n - 1)
         IN  R \cup { Append(s, x) : s \in R, x \in S }

Idle == "idle"
IdleAlias ==
    /\ raw = NaNStr /\ author_name = NaNStr
    /\ parts = << >> /\ cleaned = << >> /\ apc = Idle
IdleClean == cand = NaNStr /\ outs = << >>
IdleRank ==
    /\ authors = << >> /\ trans_count = << >> /\ idx = 0
    /\ alias_to_count = << >> /\ result = << >> /\ rpc = Idle
IdleCount ==
    /\ mcols = {} /\ lcols = {} /\ metadata = << >> /\ languages = << >>
    /\ counted = NaN /\ prev_counted = NaN /\ added = NaN /\ cpc = Idle
IdleCache ==
    /\ cache = [has |-> FALSE, tables |-> << >>]
    /\ last_call = NaN /\ stored = << >> /\ ncalls = 0

\* -------------------------------------------- list_authors, the ranker

AuthorIds == {"a1", "a2"}

\* author_id is the key of the authors table: it determines author_name
NameOf(aid) == IF aid = "a1" THEN <<"A", "b">> ELSE << >>

\* the alias fields of the authors rows
AliasFields ==
    { <<"A", "b">>, <<"a", "b">>, <<"b", ",", "a", "b">>, <<"b", ",", "b">> }

AuthorRows ==
    { [author_id |-> a, author_name |-> NameOf(a), alias |-> f] :
        a \in AuthorIds \cup {NaN}, f \in AliasFields }

\* the translation-count mappings: an author may have no entry
CountMaps ==
    UNION { [D -> 0..MaxCount] : D \in SUBSET AuthorIds }

RankInit ==
    /\ authors \in SeqsUpTo(AuthorRows, MaxRows)
    /\ trans_count \in CountMaps
    /\ idx = 0
    /\ alias_to_count = << >>
    /\ result = << >>
    /\ rpc = "loop"
    /\ IdleAlias /\ IdleClean /\ IdleCount /\ IdleCache

\* if pd.isna(aid): continue  (lines 101-103)
SkipRow ==
    /\ rpc = "loop" /\ idx < Len(authors)
    /\ authors[idx + 1].author_id = NaN
    /\ idx' = idx + 1
    /\ UNCHANGED <<authors, trans_count, alias_to_count, result, rpc>>
    /\ UNCHANGED <<aliasVars, cleanVars, countVars, cacheVars>>

\* one row with an author_id: its aliases enter alias_to_count (lines 104-119)
ProcessRow ==
    /\ rpc = "loop" /\ idx < Len(authors)
    /\ authors[idx + 1].author_id /= NaN
    /\ idx' = idx + 1
    /\ alias_to_count' = RowStep(alias_to_count, authors[idx + 1], trans_count)
    /\ UNCHANGED <<authors, trans_count, result, rpc>>
    /\ UNCHANGED <<aliasVars, cleanVars, countVars, cacheVars>>

\* lines 121-122
SortAndReturn ==
    /\ rpc = "loop" /\ idx = Len(authors)
    /\ result' = SortedAliases(alias_to_count)
    /\ rpc' = "done"
    /\ UNCHANGED <<authors, trans_count, idx, alias_to_count>>
    /\ UNCHANGED <<aliasVars, cleanVars, countVars, cacheVars>>

RankNext == SkipRow \/ ProcessRow \/ SortAndReturn

Spec == RankInit /\ [][RankNext]_vars

\* elements of a sequence
Range(s) == { s[i] : i \in 1..Len(s) }

\* the rows with an author_id whose alias field produces the alias a
Producers(a) ==
    { i \in 1..Len(authors) :
        /\ authors[i].author_id /= NaN
        /\ a \in Range(RowAliases(authors[i].alias, authors[i].author_name)) }

ProducedAliases ==
    UNION { Range(RowAliases(authors[i].alias, authors[i].author_name)) :
              i \in { j \in 1..Len(authors) : authors[j].author_id /= NaN } }

\* the largest count among the records that produced a (0 for a missing author)
BestCount(a) ==
    LET cs == { CountGet(trans_count, authors[i].author_id) : i \in Producers(a) }
    IN  CHOOSE c \in cs : \A d \in cs : d <= c

\* C1: the returned list is sorted by translation count descending, the count
\* of an alias being the largest count among the author records that produced
\* it (0 for an author missing from the mapping), and entries of equal count
\* are in ascending order of the lower-cased alias.
C1_Sorted ==
    rpc = "done" =>
        \A i \in 1..(Len(result) - 1) :
            /\ BestCount(result[i]) >= BestCount(result[i + 1])
            /\ BestCount(result[i]) = BestCount(result[i + 1])
                   => ~StrLess(Lower(result[i + 1]), Lower(result[i]))

C1_Witness ==
    /\ rpc = "done"
    /\ Len(result) >= 2
    /\ BestCount(result[1]) > BestCount(result[2])
    /\ \E i, j \in Producers(result[1]) :
          CountGet(trans_count, authors[i].author_id)
              < CountGet(trans_count, authors[j].author_id)

\* C2: the returned list holds every produced alias exactly once.
C2_NoDuplicates ==
    rpc = "done" =>
        /\ \A i, j \in 1..Len(result) : i /= j => result[i] /= result[j]
        /\ Range(result) = ProducedAliases

C2_Witness ==
    /\ rpc = "done"
    /\ \E a \in Range(result) : Cardinality(Producers(a)) >= 2
    /\ \E i \in 1..Len(authors) :
          /\ authors[i].author_id /= NaN
          /\ LET cl == RowAliases(authors[i].alias, authors[i].author_name)
             IN  Len(cl) = 2 /\ cl[1] = cl[2]

\* C10: list_authors returns the same sequence for every permutation of the
\* rows of the authors table.
C10_RowOrderIndependent ==
    rpc = "done" =>
        \A p \in Permutations(1..Len(authors)) :
            ListAuthors([i \in 1..Len(authors) |-> authors[p[i]]], trans_count)
                = result

\* ------------------------------------- one authors row, step by step

\* the alias fields of the example scenarios
\* "Mark Twain, Samuel Clemens"
MarkTwainField ==
    <<"M", "a", "r", "k", " ", "T", "w", "a", "i", "n", ",", " ", "S",
          "a", "m", "u", "e", "l", " ", "C", "l", "e", "m", "e", "n", "s">>

\* "[none]"
NoneField ==
    <<"[", "n", "o", "n", "e", "]">>

\* "http://example.com"
UrlField ==
    <<"h", "t", "t", "p", ":", "/", "/", "e", "x", "a", "m", "p", "l",
          "e", ".", "c", "o", "m">>

\* "Jane Doe and J. Doe"
JaneDoeField ==
    <<"J", "a", "n", "e", " ", "D", "o", "e", " ", "a", "n", "d", " ",
          "J", ".", " ", "D", "o", "e">>

\* "Jane Doe"
JaneDoe ==
    <<"J", "a", "n", "e", " ", "D", "o", "e">>

\* "a@b"
EmailField ==
    <<"a", "@", "b">>

ScenarioFields == {MarkTwainField, NoneField, UrlField, JaneDoeField, EmailField}

\* the characters of the alias fields enumerated up to MaxRawLen
AliasAlphabet == {"a", "n", "A", " ", "[", "]", ","}

RawFields == SeqsUpTo(AliasAlphabet, MaxRawLen) \cup ScenarioFields \cup {NaNStr}

\* the author names of the rows: "", "an", "a]", "Jane Doe" and a missing name
RowNames == { << >>, <<"a", "n">>, <<"a", "]">>, JaneDoe, NaNStr }

AliasInit ==
    /\ raw \in RawFields
    /\ author_name \in RowNames
    /\ parts = << >>
    /\ cleaned = << >>
    /\ apc = "row"
    /\ IdleClean /\ IdleRank /\ IdleCount /\ IdleCache

\* line 106
SplitRow ==
    /\ apc = "row"
    /\ parts' = SplitRaw(raw)
    /\ apc' = "split"
    /\ UNCHANGED <<raw, author_name, cleaned>>
    /\ UNCHANGED <<cleanVars, rankVars, countVars, cacheVars>>

\* lines 107-111
CleanRow ==
    /\ apc = "split"
    /\ cleaned' = CleanParts(parts, author_name)
    /\ apc' = "cleaned"
    /\ UNCHANGED <<raw, author_name, parts>>
    /\ UNCHANGED <<cleanVars, rankVars, countVars, cacheVars>>

\* lines 112-115, the raw field is a str and no token survived
LastResortRow ==
    /\ apc = "cleaned"
    /\ cleaned = << >> /\ raw /= NaNStr
    /\ cleaned' = LastResort(cleaned, raw, author_name)
    /\ apc' = "done"
    /\ UNCHANGED <<raw, author_name, parts>>
    /\ UNCHANGED <<cleanVars, rankVars, countVars, cacheVars>>

\* line 112, the condition is false
KeepRow ==
    /\ apc = "cleaned"
    /\ ~(cleaned = << >> /\ raw /= NaNStr)
    /\ apc' = "done"
    /\ UNCHANGED <<raw, author_name, parts, cleaned>>
    /\ UNCHANGED <<cleanVars, rankVars, countVars, cacheVars>>

AliasNext == SplitRow \/ CleanRow \/ LastResortRow \/ KeepRow

SpecAlias == AliasInit /\ [][AliasNext]_vars

Http == <<"h", "t", "t", "p", ":", "/", "/">>
Https == <<"h", "t", "t", "p", "s", ":", "/", "/">>

\* a candidate that looks like a URL or holds an "@"
UrlOrEmailLike(s) ==
    StartsWith(s, Http) \/ StartsWith(s, Https) \/ Contains(s, <<"@">>)

\* C4: _clean_alias returns '' for every candidate that starts with "http://"
\* or "https://" or contains "@", so that an alias field that is such a
\* candidate contributes no alias.
C4_UrlRejected ==
    (apc = "done" /\ raw /= NaNStr /\ UrlOrEmailLike(raw)) =>
        /\ _clean_alias(raw, author_name) = << >>
        /\ \A i \in 1..Len(parts) :
              UrlOrEmailLike(parts[i]) => _clean_alias(parts[i], author_name) = << >>
        /\ cleaned = << >>

\* no comma, semicolon, pipe, slash or backslash and no whole word "and"
NoSeparator(s) ==
    /\ \A i \in 1..Len(s) : s[i] \notin Separators
    /\ \A i \in 1..Len(s) : ~AndAt(s, i)

\* C7 as stated: a raw alias field with a letter and no recognized separator
\* yields exactly one alias, the whole field trimmed.
C7_WholeString ==
    (apc = "done" /\ raw /= NaNStr /\ HasLetter(raw) /\ NoSeparator(raw)) =>
        cleaned = <<Strip(raw)>>

\* s is the author's name, compared trimmed and without regard to case
IsSelfName(s, name) ==
    name /= NaNStr /\ Lower(Strip(s)) = Lower(Strip(name))

\* the trimmed field starts with [ ( " or ends with ] ) "
HasOuter(s) == StripOuter(s) /= s

\* C7, amended: a raw alias field with a letter and no recognized separator
\* which, trimmed, has no outer bracket, parenthesis or quote character, is
\* not "none" or "nan" and is not the author's name (both compared without
\* regard to case), yields exactly one alias, the whole field trimmed.
C7_WholeStringAmended ==
    ( /\ apc = "done" /\ raw /= NaNStr
      /\ HasLetter(raw) /\ NoSeparator(raw)
      /\ ~HasOuter(Strip(raw))
      /\ Lower(Strip(raw)) \notin NoneTokens
      /\ ~IsSelfName(raw, author_name) ) =>
        cleaned = <<Strip(raw)>>

C7_Witness ==
    /\ apc = "done" /\ raw /= NaNStr
    /\ HasLetter(raw) /\ NoSeparator(raw)
    /\ ~HasOuter(Strip(raw))
    /\ Lower(Strip(raw)) \notin NoneTokens
    /\ ~IsSelfName(raw, author_name)
    /\ Strip(raw) /= raw
    /\ Contains(Strip(raw), <<" ">>)
    /\ cleaned = <<Strip(raw)>>

\* ------------------------------------ _clean_alias applied repeatedly

CleanInit ==
    /\ cand \in RawFields \ {NaNStr}
    /\ author_name \in RowNames
    /\ outs = << >>
    /\ raw = NaNStr /\ parts = << >> /\ cleaned = << >> /\ apc = Idle
    /\ IdleRank /\ IdleCount /\ IdleCache

\* c = _clean_alias(a, author_name), a being the candidate or, after a first
\* application that did not return '', its result
ApplyClean ==
    /\ Len(outs) < MaxApply
    /\ IF outs = << >> THEN TRUE ELSE outs[Len(outs)] /= << >>
    /\ outs' = Append(outs, _clean_alias(IF outs = << >> THEN cand
                                          ELSE outs[Len(outs)], author_name))
    /\ UNCHANGED <<cand, aliasVars, rankVars, countVars, cacheVars>>

SpecClean == CleanInit /\ [][ApplyClean]_vars

\* C5: a candidate equal to the author's name without regard to case is
\* cleaned to ''.
C5_SelfNameRejected ==
    (Len(outs) >= 1 /\ author_name /= NaNStr /\ Lower(cand) = Lower(author_name))
        => outs[1] = << >>

\* C6: a second application of _clean_alias to a result that is not ''
\* returns that result.
C6_Idempotent ==
    Len(outs) >= 2 => outs[2] = outs[1]

\* ------------------------------- list_authors, the translation count

MetaCols == {"gutenberg_id", "id", "author_id", "gutenberg_author_id"}
LangCols == {"gutenberg_id", "id", "language"}
WorkIdCols == <<"gutenberg_id", "id">>

WorkIds == {"w1", "w2"}
LangCodes == {"en", "fr"}
\* language values x for which x.strip() is empty
BlankCodes == {"", " "}

\* a metadata row holds a work id and an author id, a languages row a work
\* id and a language; a table shows them under the columns it has
MetaRows ==
    { [wid |-> "w1", aid |-> "a1"], [wid |-> "w2", aid |-> "a1"],
      [wid |-> "w2", aid |-> "a2"], [wid |-> NaN, aid |-> "a1"],
      [wid |-> "w1", aid |-> NaN] }
LangRows ==
    { [wid |-> "w1", language |-> "en"], [wid |-> "w1", language |-> "fr"],
      [wid |-> "w2", language |-> "en"], [wid |-> "w2", language |-> " "],
      [wid |-> "w1", language |-> NaN] }

\* the authors table of the translation-count step
CountAuthors ==
    << [author_id |-> "a1", author_name |-> << >>, alias |-> <<"a">>],
       [author_id |-> NaN, author_name |-> << >>, alias |-> <<"b">>] >>

\* metadata.columns after the rename of line 60-61
NormMetaCols(mc) ==
    IF "gutenberg_author_id" \in mc /\ "author_id" \notin mc
    THEN (mc \ {"gutenberg_author_id"}) \cup {"author_id"}
    ELSE mc

\* gutenberg_id_col (lines 64-68); NaN is None
GutenbergIdCol(mc, lc) ==
    IF WorkIdCols[1] \in mc \cup lc THEN WorkIdCols[1]
    ELSE IF WorkIdCols[2] \in mc \cup lc THEN WorkIdCols[2]
    ELSE NaN

KeyError(kind) == [kind |-> kind, status |-> "KeyError", map |-> << >>]
Counted(kind, m) == [kind |-> kind, status |-> "ok", map |-> m]

\* the rows of metadata[[col, 'author_id']].dropna()
JoinRows(meta) ==
    { i \in 1..Len(meta) : meta[i].wid /= NaN /\ meta[i].aid /= NaN }

\* the language codes the left join gives the works ws: not null, not blank
JoinedLangs(ws, langs) ==
    { langs[j].language :
        j \in { k \in 1..Len(langs) :
                  /\ langs[k].wid \in ws
                  /\ langs[k].language /= NaN
                  /\ langs[k].language \notin BlankCodes } }

\* lines 73-77: the authors' distinct languages over the work-id join, and an
\* author without any language gets the number of distinct works
CountByJoin(mc, lc, col, meta, langs) ==
    IF "author_id" \notin mc \/ col \notin lc THEN KeyError("join")
    ELSE LET rows == JoinRows(meta)
             works(a) == { meta[i].wid : i \in { k \in rows : meta[k].aid = a } }
         IN  Counted("join",
                 [a \in { meta[i].aid : i \in rows } |->
                     LET ls == JoinedLangs(works(a), langs)
                     IN  IF ls /= {} THEN Cardinality(ls)
                         ELSE Cardinality(works(a))])

\* the groups of metadata.groupby('author_id'): null keys are dropped
GroupRows(meta, a) == { i \in 1..Len(meta) : meta[i].aid = a }
GroupKeys(meta) == { meta[i].aid : i \in 1..Len(meta) } \ {NaN}

\* lines 79-80: distinct work ids per author
CountByWorks(mc, meta) ==
    IF "author_id" \notin mc THEN KeyError("works")
    ELSE Counted("works",
             [a \in GroupKeys(meta) |->
                 Cardinality({ meta[i].wid : i \in GroupRows(meta, a) } \ {NaN})])

\* lines 82-83: rows per author
CountByRows(meta) ==
    Counted("rows", [a \in GroupKeys(meta) |-> Cardinality(GroupRows(meta, a))])

\* lines 85-86: every authors row's author_id maps to 0
CountZero(rows) ==
    Counted("zero", [a \in { rows[i].author_id : i \in 1..Len(rows) } |-> 0])

\* the conditions of lines 72, 78 and 81, in this order
Branch(mc, lc) ==
    LET col == GutenbergIdCol(mc, lc)
    IN  IF col /= NaN /\ "language" \in lc /\ col \in mc THEN "join"
        ELSE IF col /= NaN /\ col \in mc THEN "works"
        ELSE IF "author_id" \in mc THEN "rows"
        ELSE "zero"

CountInit ==
    /\ mcols \in SUBSET MetaCols
    /\ lcols \in SUBSET LangCols
    /\ metadata \in SeqsUpTo(MetaRows, MaxMeta)
    /\ languages \in SeqsUpTo(LangRows, MaxLang)
    /\ authors = CountAuthors
    /\ counted = NaN /\ prev_counted = NaN /\ added = NaN
    /\ cpc = "start"
    /\ trans_count = << >> /\ idx = 0 /\ alias_to_count = << >>
    /\ result = << >> /\ rpc = Idle
    /\ IdleAlias /\ IdleClean /\ IdleCache

\* the step is entered by a call of list_authors
Entered == cpc \in {"start", "added"}
Left == IF cpc = "start" THEN "counted" ELSE "recounted"

CountFrame ==
    /\ UNCHANGED <<mcols, lcols, metadata, languages, prev_counted, added>>
    /\ UNCHANGED <<aliasVars, cleanVars, rankVars, cacheVars>>

JoinStep ==
    /\ Entered
    /\ Branch(NormMetaCols(mcols), lcols) = "join"
    /\ counted' = CountByJoin(NormMetaCols(mcols), lcols,
                              GutenbergIdCol(NormMetaCols(mcols), lcols),
                              metadata, languages)
    /\ cpc' = Left
    /\ CountFrame

WorksStep ==
    /\ Entered
    /\ Branch(NormMetaCols(mcols), lcols) = "works"
    /\ counted' = CountByWorks(NormMetaCols(mcols), metadata)
    /\ cpc' = Left
    /\ CountFrame

RowsStep ==
    /\ Entered
    /\ Branch(NormMetaCols(mcols), lcols) = "rows"
    /\ counted' = CountByRows(metadata)
    /\ cpc' = Left
    /\ CountFrame

ZeroStep ==
    /\ Entered
    /\ Branch(NormMetaCols(mcols), lcols) = "zero"
    /\ counted' = CountZero(authors)
    /\ cpc' = Left
    /\ CountFrame

\* between two calls the languages table gains a row that links a work to a
\* language code
AddLanguageRow ==
    /\ cpc = "counted"
    /\ counted.kind = "join" /\ counted.status = "ok"
    /\ \E w \in WorkIds, l \in LangCodes :
          /\ added' = [wid |-> w, language |-> l]
          /\ languages' = Append(languages, [wid |-> w, language |-> l])
    /\ prev_counted' = counted
    /\ cpc' = "added"
    /\ UNCHANGED <<mcols, lcols, metadata, counted>>
    /\ UNCHANGED <<aliasVars, cleanVars, rankVars, cacheVars>>

CountNext == JoinStep \/ WorksStep \/ RowsStep \/ ZeroStep \/ AddLanguageRow

SpecCount == CountInit /\ [][CountNext]_vars

\* the works of author a: the metadata rows with a work id and this author
WorksOf(a) ==
    { metadata[i].wid :
        i \in { k \in 1..Len(metadata) :
                  metadata[k].aid = a /\ metadata[k].wid /= NaN } }

\* the language codes of a's works before the row was added
LangsBefore(a) ==
    JoinedLangs(WorksOf(a), SubSeq(languages, 1, Len(languages) - 1))

\* C3: adding a language row that links a work of an author to a language
\* code none of the author's works had raises the author's count by exactly
\* 1, and adding one whose code a work of the author already had leaves the
\* count unchanged.
C3_Monotonic ==
    (cpc = "recounted" /\ counted.status = "ok" /\ counted.kind = "join") =>
        \A a \in DOMAIN prev_counted.map :
            added.wid \in WorksOf(a) =>
                counted.map[a] =
                    IF added.language \in LangsBefore(a)
                    THEN prev_counted.map[a]
                    ELSE prev_counted.map[a] + 1

\* C8: whatever columns the tables have, the translation-count step ends in
\* a result and never in an error.
C8_NeverFails ==
    cpc \in {"counted", "recounted"} => counted.status = "ok"

\* ------------------------------------------- read_gutenberg_tables

\* the keys of urls (lines 22-27)
TableKeys ==
    {"gutenberg_authors", "gutenberg_languages", "gutenberg_metadata",
     "gutenberg_subjects"}

\* what pd.read_csv(url) may give: a table (one of two contents) or an
\* exception; pd.DataFrame() is the empty table
Downloads == {"v1", "v2", "fail"}
EmptyTable == "empty"

\* the attribute is not set before the first call (getattr default None)
NoCache == [has |-> FALSE, tables |-> << >>]

\* the bug of taking a cache of empty tables for no cache
TruthyNonEmpty(c) == c.has /\ \E k \in DOMAIN c.tables : c.tables[k] /= EmptyTable

\* bool(cache): None is false, a dict is true when it has a key
Truthy(c) == c.has /\ DOMAIN c.tables /= {}

\* if cache and not reload  (line 16)
UseCache(c, reload) == Truthy(c) /\ ~reload

\* the loop of lines 29-42 under the outcome of each download
Loaded(outcome) ==
    [k \in TableKeys |-> IF outcome[k] = "fail" THEN EmptyTable ELSE outcome[k]]

CacheInit ==
    /\ cache = NoCache
    /\ last_call = NaN
    /\ stored = << >>
    /\ ncalls = 0
    /\ IdleAlias /\ IdleClean /\ IdleRank /\ IdleCount

\* a call that returns the cache (lines 15-20)
ReturnCached ==
    /\ ncalls < MaxCalls
    /\ UseCache(cache, FALSE)
    /\ last_call' = [reload |-> FALSE, first |-> ncalls = 0, downloaded |-> {},
                     outcome |-> << >>, returned |-> cache.tables]
    /\ ncalls' = ncalls + 1
    /\ UNCHANGED <<cache, stored>>
    /\ UNCHANGED <<aliasVars, cleanVars, rankVars, countVars>>

\* a call that downloads the four tables and stores them (lines 21-47)
Download ==
    /\ ncalls < MaxCalls
    /\ \E reload \in BOOLEAN, outcome \in [TableKeys -> Downloads] :
          /\ ~UseCache(cache, reload)
          /\ cache' = [has |-> TRUE, tables |-> Loaded(outcome)]
          /\ stored' = Loaded(outcome)
          /\ last_call' = [reload |-> reload, first |-> ncalls = 0,
                           downloaded |-> TableKeys, outcome |-> outcome,
                           returned |-> Loaded(outcome)]
    /\ ncalls' = ncalls + 1
    /\ UNCHANGED <<aliasVars, cleanVars, rankVars, countVars>>

CacheNext == ReturnCached \/ Download

SpecCache == CacheInit /\ [][CacheNext]_vars

\* C9: the first call and every call with reload=True download the four
\* tables and replace the cache by what they loaded, a failed download being
\* stored as the empty table; every later call with reload=False downloads
\* nothing and returns the tables stored by the most recent downloading call.
C9_CacheProtocol ==
    ncalls >= 1 =>
        /\ (last_call.first \/ last_call.reload) =>
              /\ last_call.downloaded = TableKeys
              /\ \A k \in TableKeys :
                    cache.tables[k] = IF last_call.outcome[k] = "fail"
                                      THEN EmptyTable ELSE last_call.outcome[k]
              /\ last_call.returned = cache.tables
        /\ (~last_call.first /\ ~last_call.reload) =>
              /\ last_call.downloaded = {}
              /\ last_call.returned = stored
              /\ cache.tables = stored

C9_Witness ==
    /\ ncalls >= 2
    /\ ~last_call.first /\ ~last_call.reload
    /\ last_call.downloaded = {}
    /\ last_call.returned = stored
    /\ \A k \in TableKeys : stored[k] = EmptyTable

====
